---- MODULE Spec2Model ----
(***************************************************************************)
(* Model of the segmented download engine of IDM_clone:                    *)
(*   src/segment.py           Segment (one ranged GET into a part file)    *)
(*   src/download_manager.py  DownloadTask (controller) and DownloadManager*)
(*                                                                         *)
(* One task is followed from add_download on.  Its threads (the            *)
(* start_download threads, the segment workers, the monitors) are          *)
(* interleaved with the calls the user interface makes on the manager.     *)
(*                                                                         *)
(* Sizes and offsets are counted in blocks of one iter_content chunk       *)
(* (65536 bytes, src/segment.py:47): the resource is the sequence of its   *)
(* block offsets 0 .. resource_size-1, a file is the sequence of the       *)
(* blocks written to it, and a worker appends one block per loop           *)
(* iteration.  In this unit the 1024 * 1024 bytes of                       *)
(* src/download_manager.py:159 are 16 blocks.                              *)
(***************************************************************************)
EXTENDS Integers, Sequences, FiniteSets, TLC

\* ---------------------------------------------------------------- bounds
\* start_download threads ever spawned for the task (add, resume, scheduler)
MaxStarts == 2
\* the wall clock runs 1 .. MaxTime
MaxTime == 2
\* calls the user interface makes on the manager and the task
MaxCalls == 3
\* requests, reads and writes of the workers that raise
MaxErrors == 1

\* worker threads the scheduler is fair to (SpecFair)
MaxWorkers == 2
\* task objects a manager with several tasks creates (SpecManager)
MaxTasks == 2

\* ------------------------------------------------------ program constants
\* Segment.end of an open-ended segment (src/segment.py:17)
None == -2
\* iter_content(chunk_size=65536): one block
ChunkSize == 1
\* largest_seg.remaining > 1024 * 1024, in blocks of 65536 bytes
SplitThreshold == 16

\* ------------------------------------------------------------ the inputs
\* resource lengths served by the remote host, in blocks, and
\* DownloadTask.segments as requested by the user: single-segment downloads
\* of short resources, which the interface may stop and start again (Spec),
\* and two-segment downloads of a resource long enough to be split, which
\* it does not start again (SpecSplit)
ResourceSizes == {2, 3}
SegmentCounts == {1}
SplitResourceSizes == {34}
SplitSegmentCounts == {2}
\* a two-segment download whose segments are long enough to be split after
\* part of them is on disk, run without interference (SpecLong)
LongResourceSizes == {54}
\* schedule_time: None, or a wall-clock instant
ScheduleTimes == {None, 2}
\* sizes and segment counts for the planning alone (SpecPlan): no worker
\* runs there, so a size is read as a number of bytes; the counts reach
\* beyond the smallest sizes
PlanSizes == 1..8
PlanCounts == 1..4
\* and a schedule_time: none, one that is due at once, one in the future
PlanScheduleTimes == {None, 1, 2}

\* a manager with several tasks: the class add_download picks from the URL
\* (src/download_manager.py:228), and the schedule_time it is given
TaskKinds == {"DownloadTask", "VideoDownloadTask"}
ManagerScheduleTimes == {None, 1, 2}

VARIABLES
    resource_size,   \* length of the remote resource
    content_length,  \* whether the host answers HEAD with a Content-Length
    segments,        \* DownloadTask.segments (requested segment count)
    schedule_time,   \* DownloadTask.schedule_time
    now,             \* datetime.datetime.now()
    tasks,           \* DownloadManager.tasks (<<>> or <<"task">>)
    created,         \* the task object exists (add_download was called)
    status,          \* DownloadTask.status
    file_size,       \* DownloadTask.file_size
    progress,        \* DownloadTask.progress
    total_downloaded,\* DownloadTask._total_downloaded
    stop_event,      \* DownloadTask._stop_event
    pause_event,     \* DownloadTask._pause_event (set = not paused)
    segs,            \* DownloadTask._segments
    disk,            \* the part files: records [path, data]
    final_exists,    \* the final file exists
    final_data,      \* contents of the final file
    starters,        \* start_download threads, by position
    monitors,        \* _monitor_progress threads, by position
    workers,         \* Segment.download threads
    started,         \* start_download threads spawned so far
    spawned,         \* worker threads spawned so far
    merges,          \* calls of _merge_segments so far
    calls,           \* history: the calls of the user interface so far,
                     \* each with the status it found
    errors,          \* exceptions raised in the workers so far
    probe,           \* history: how the last HEAD request of
                     \* _fetch_file_size ended
    objects,         \* the task objects of a manager with several tasks,
                     \* by handle (SpecManager)
    snapshot         \* the list get_all_tasks returned last (SpecManager)

vars == <<resource_size, content_length, segments, schedule_time, now, tasks,
          created, status, file_size, progress, total_downloaded, stop_event,
          pause_event, segs, disk, final_exists, final_data, starters,
          monitors, workers, started, spawned, merges, calls,
          errors, probe, objects, snapshot>>

envVars == <<resource_size, content_length, segments, schedule_time>>
budgetVars == <<calls, errors>>
managerVars == <<objects, snapshot>>
diskVars == <<disk, final_exists, final_data>>

\* ------------------------------------------------------------- helpers
Min(a, b) == IF a < b THEN a ELSE b
Max(a, b) == IF a > b THEN a ELSE b

\* the resource: block i (1-based position i+1) is identified with offset i
Resource == [i \in 1..resource_size |-> i - 1]

\* requests.head in _fetch_file_size: a response arrived, or the request
\* raised after the connection was made (a timeout), or before any byte
\* (DNS, connect); the except clause catches both
ProbeOutcomes == {"answered", "timeout", "connection_error"}

StarterPcs == {"check", "clear", "plan"}
MonitorPcs == {"loop", "body", "post", "set"}

\* Segment.__init__ : seg_id = f"{start or 0}-{end or 'end'}"
TempPath(start, end) ==
    <<start, IF end = None \/ end = 0 THEN None ELSE end>>

NewSegment(start, end) ==
    [start |-> start, end |-> end, downloaded |-> 0,
     is_finished |-> FALSE, is_stopped |-> FALSE,
     temp_path |-> TempPath(start, end)]

\* Segment.remaining
Remaining(s) ==
    IF s.end = None \/ s.is_finished THEN 0
    ELSE Max(0, ((s.end - s.start) + 1) - s.downloaded)

\* a planning whose last segment does not take the remainder
PlannedSegmentsEqualParts(fsize, n) ==
    IF fsize > 0
    THEN LET part_size == fsize \div n
         IN [k \in 1..n |->
               NewSegment((k - 1) * part_size, (k * part_size) - 1)]
    ELSE <<NewSegment(0, None)>>

\* a planning that opens one open-ended segment per requested segment
PlannedSegmentsOpenPerCount(fsize, n) ==
    IF fsize > 0
    THEN LET part_size == fsize \div n
         IN [k \in 1..n |->
               NewSegment((k - 1) * part_size,
                          IF k = n THEN fsize - 1 ELSE (k * part_size) - 1)]
    ELSE [k \in 1..n |-> NewSegment(0, None)]

\* DownloadTask._create_segments : the segments appended by one planning
PlannedSegments(fsize, n) ==
    IF fsize > 0
    THEN LET part_size == fsize \div n
         IN [k \in 1..n |->
               LET i == k - 1
                   start == i * part_size
                   end == IF i = n - 1 THEN fsize - 1
                          ELSE ((i + 1) * part_size) - 1
               IN NewSegment(start, end)]
    ELSE <<NewSegment(0, None)>>

\* a worker thread just created for segment index k
NewWorker(id, k) ==
    [id |-> id, seg |-> k, pc |-> "req", next |-> 0, last |-> -1,
     mode |-> "ab", wpos |-> 0, orphan |-> FALSE]

\* no call of get_all_tasks yet
NoSnapshot == [taken |-> FALSE, live |-> FALSE, items |-> <<>>]

\* the state after DownloadManager.__init__, before add_download
Constructed ==
    /\ now = 1
    /\ tasks = <<>>
    /\ created = FALSE
    /\ status = "Queued"
    /\ file_size = 0
    /\ progress = 0
    /\ total_downloaded = 0
    /\ stop_event = FALSE
    /\ pause_event = TRUE
    /\ segs = <<>>
    /\ disk = {}
    /\ final_exists = FALSE
    /\ final_data = <<>>
    /\ starters = [p \in StarterPcs |-> 0]
    /\ monitors = [p \in MonitorPcs |-> 0]
    /\ workers = {}
    /\ started = 0
    /\ spawned = 0
    /\ merges = 0
    /\ calls = <<>>
    /\ errors = 0
    /\ probe = "none"
    /\ objects = <<>>
    /\ snapshot = NoSnapshot

Init ==
    /\ resource_size \in ResourceSizes
    /\ content_length \in BOOLEAN
    /\ segments \in SegmentCounts
    /\ schedule_time \in ScheduleTimes
    /\ Constructed

InitPlan ==
    /\ resource_size \in PlanSizes
    /\ content_length \in BOOLEAN
    /\ segments \in PlanCounts
    /\ schedule_time \in PlanScheduleTimes
    /\ Constructed

InitLong ==
    /\ resource_size \in LongResourceSizes
    /\ content_length = TRUE
    /\ segments \in SplitSegmentCounts
    /\ schedule_time = None
    /\ Constructed

InitSplit ==
    /\ resource_size \in SplitResourceSizes
    /\ content_length \in BOOLEAN
    /\ segments \in SplitSegmentCounts
    /\ schedule_time = None
    /\ Constructed

\* a call of the interface is recorded, within the bound
Called(name) ==
    /\ Len(calls) < MaxCalls
    /\ calls' = Append(calls, <<name, status>>)

\* no thread is started
SpawnNothing == starters

\* threading.Thread(target=task.start_download).start()
SpawnStart == [starters EXCEPT !["check"] = @ + 1]

\* DownloadManager.add_download
AddDownload ==
    /\ Called("add_download")
    /\ ~created
    /\ created' = TRUE
    /\ tasks' = Append(tasks, "task")
    /\ IF schedule_time # None /\ schedule_time > now
       THEN /\ status' = "Scheduled"
            /\ UNCHANGED <<starters, started>>
       ELSE /\ starters' = SpawnStart
            /\ started' = started + 1
            /\ UNCHANGED status
    /\ UNCHANGED <<envVars, managerVars, probe, errors, now, file_size, progress, total_downloaded,
                   stop_event, pause_event, segs, diskVars, monitors,
                   workers, spawned, merges>>

\* ------------------------------------------------------------ the disk
Exists(d, path) == \E f \in d : f.path = path
Data(d, path) == (CHOOSE f \in d : f.path = path).data
GetSize(d, path) == Len(Data(d, path))
Remove(d, path) == {f \in d : f.path # path}
Put(d, path, data) == Remove(d, path) \cup {[path |-> path, data |-> data]}

\* f.write(chunk) through a handle opened "ab" (at the end of the file) or
\* "wb" (at the handle's own position wpos)
Written(data, w, chunk) ==
    IF w.mode = "ab" \/ w.wpos >= Len(data)
    THEN Append(data, chunk)
    ELSE [data EXCEPT ![w.wpos + 1] = chunk]

\* ---------------------------------------------------- start_download
\* lines 52-54: the status check and the move to Downloading
StartCheck ==
    /\ starters["check"] > 0
    /\ IF status \notin {"Queued", "Paused", "Error"}
       THEN /\ starters' = [starters EXCEPT !["check"] = @ - 1]
            /\ UNCHANGED status
       ELSE /\ starters' = [starters EXCEPT !["check"] = @ - 1,
                                             !["clear"] = @ + 1]
            /\ status' = "Downloading"
    /\ UNCHANGED <<envVars, managerVars, probe, budgetVars, now, tasks, created, file_size, progress,
                   total_downloaded, stop_event, pause_event, segs, diskVars,
                   monitors, workers, started, spawned, merges>>

\* lines 55-56: the signals are reset
StartClear ==
    /\ starters["clear"] > 0
    /\ starters' = [starters EXCEPT !["clear"] = @ - 1, !["plan"] = @ + 1]
    /\ stop_event' = FALSE
    /\ pause_event' = TRUE
    /\ UNCHANGED <<envVars, managerVars, probe, budgetVars, now, tasks, created, status, file_size, progress,
                   total_downloaded, segs, diskVars, monitors, workers,
                   started, spawned, merges>>

\* _fetch_file_size: the HEAD answers with a Content-Length, or the size
\* is left as it was (no header, or the request raised)
FetchedFileSize(head_ok) ==
    IF head_ok /\ content_length THEN resource_size ELSE file_size

\* the worker threads start_download spawns, one per segment of the list;
\* the thread of a segment already finished or stopped returns at once
\* (src/segment.py:29-30; neither flag is ever reset) and is left out
StartedWorkers(list) ==
    {NewWorker(spawned + k, k) :
        k \in {i \in 1..Len(list) :
                  ~list[i].is_finished /\ ~list[i].is_stopped}}

\* lines 59-73: probe, plan, spawn the monitor and one worker per segment
StartPlan ==
    /\ starters["plan"] > 0
    /\ starters' = [starters EXCEPT !["plan"] = @ - 1]
    /\ \E outcome \in ProbeOutcomes :
         LET fsize == FetchedFileSize(outcome = "answered")
             list == segs \o PlannedSegments(fsize, segments)
         IN /\ probe' = outcome
            /\ file_size' = fsize
            /\ segs' = list
            /\ monitors' = [monitors EXCEPT !["loop"] = @ + 1]
            /\ workers' = workers \cup StartedWorkers(list)
            /\ spawned' = spawned + Len(list)
    /\ UNCHANGED <<envVars, managerVars, budgetVars, now, tasks, created, status, progress,
                   total_downloaded, stop_event, pause_event, diskVars,
                   started, merges>>

\* ------------------------------------------------------ Segment.download
SetSeg(k, field, val) == [segs EXCEPT ![k][field] = val]

\* the body the host streams for a request of [first, last]
RangeSatisfiable(first, last) == first <= last /\ first < resource_size

\* lines 29-46: the early return, the Range header, the request, the open
WorkerRequest(w) ==
    /\ w.pc = "req"
    /\ LET s == segs[w.seg]
           there == Exists(disk, s.temp_path)
           ranged == s.end # None
           downloaded_so_far == IF ranged /\ there
                                THEN GetSize(disk, s.temp_path) ELSE 0
           actual_start == s.start + downloaded_so_far
       IN IF s.is_finished \/ s.is_stopped
          THEN /\ workers' = workers \ {w}
               /\ UNCHANGED <<segs, disk>>
          ELSE IF ranged /\ ~RangeSatisfiable(actual_start, s.end)
          THEN \* raise_for_status raises: line 68
               /\ workers' = workers \ {w}
               /\ segs' = SetSeg(w.seg, "is_stopped", TRUE)
               /\ UNCHANGED disk
          ELSE /\ workers' = (workers \ {w}) \cup
                     {[w EXCEPT !.pc = "iter",
                                !.next = IF ranged THEN actual_start ELSE 0,
                                !.last = IF ranged
                                         THEN Min(s.end, resource_size - 1)
                                         ELSE resource_size - 1,
                                !.mode = IF there THEN "ab" ELSE "wb"]}
               /\ disk' = IF there THEN disk ELSE Put(disk, s.temp_path, <<>>)
               /\ UNCHANGED segs
    /\ UNCHANGED <<envVars, managerVars, probe, budgetVars, now, tasks, created, status, file_size, progress,
                   total_downloaded, stop_event, pause_event, final_exists,
                   final_data, starters, monitors, started, spawned, merges>>

\* lines 56-58: the chunk is written and counted
WriteChunk(w) ==
    LET s == segs[w.seg]
    IN /\ disk' = IF w.orphan \/ ~Exists(disk, s.temp_path) THEN disk
                  ELSE Put(disk, s.temp_path,
                           Written(Data(disk, s.temp_path), w, w.next))
       /\ segs' = SetSeg(w.seg, "downloaded", s.downloaded + ChunkSize)
       /\ workers' = (workers \ {w}) \cup
             {[w EXCEPT !.pc = "iter", !.next = @ + ChunkSize,
                        !.wpos = IF w.mode = "wb" THEN @ + ChunkSize ELSE @]}

\* a worker that forgets its count when it sees the stop signal
StopSeenReset(w) ==
    /\ segs' = [segs EXCEPT ![w.seg].is_stopped = TRUE,
                            ![w.seg].downloaded = 0]
    /\ workers' = workers \ {w}
    /\ UNCHANGED disk

\* a worker that takes the chunk in hand with it when it sees the stop
StopSeenAfterWrite(w) ==
    /\ disk' = IF w.orphan \/ ~Exists(disk, segs[w.seg].temp_path) THEN disk
               ELSE Put(disk, segs[w.seg].temp_path,
                        Written(Data(disk, segs[w.seg].temp_path), w, w.next))
    /\ segs' = [segs EXCEPT ![w.seg].is_stopped = TRUE,
                            ![w.seg].downloaded = @ + ChunkSize]
    /\ workers' = workers \ {w}

\* lines 49-50 and 54-55: the stop signal was seen
StopSeen(w) ==
    /\ segs' = SetSeg(w.seg, "is_stopped", TRUE)
    /\ workers' = workers \ {w}
    /\ UNCHANGED disk

\* lines 47-58: one chunk arrives
WorkerChunk(w) ==
    /\ w.pc = "iter"
    /\ w.next <= w.last
    /\ IF stop_event THEN StopSeen(w)
       ELSE IF ~pause_event
       THEN /\ workers' = (workers \ {w}) \cup {[w EXCEPT !.pc = "wait"]}
            /\ UNCHANGED <<segs, disk>>
       ELSE WriteChunk(w)
    /\ UNCHANGED <<envVars, managerVars, probe, budgetVars, now, tasks, created, status, file_size, progress,
                   total_downloaded, stop_event, pause_event, final_exists,
                   final_data, starters, monitors, started, spawned, merges>>

\* a worker that drops the chunk in hand when the pause ends
WorkerWaitDiscards(w) ==
    /\ w.pc = "wait"
    /\ pause_event \/ stop_event
    /\ IF stop_event THEN StopSeen(w)
       ELSE /\ workers' = (workers \ {w}) \cup
                  {[w EXCEPT !.pc = "iter", !.next = @ + ChunkSize]}
            /\ UNCHANGED <<segs, disk>>
    /\ UNCHANGED <<envVars, managerVars, probe, budgetVars, now, tasks, created, status, file_size, progress,
                   total_downloaded, stop_event, pause_event, final_exists,
                   final_data, starters, monitors, started, spawned, merges>>

\* lines 51-58: the pause loop is left
WorkerWait(w) ==
    /\ w.pc = "wait"
    /\ pause_event \/ stop_event
    /\ IF stop_event THEN StopSeen(w) ELSE WriteChunk(w)
    /\ UNCHANGED <<envVars, managerVars, probe, budgetVars, now, tasks, created, status, file_size, progress,
                   total_downloaded, stop_event, pause_event, final_exists,
                   final_data, starters, monitors, started, spawned, merges>>

\* lines 59-65: is_finished after the end of the body
FinishedAtEnd(s) ==
    IF s.is_stopped THEN s.is_finished
    ELSE IF s.end # None
         THEN IF s.downloaded >= (s.end - s.start) + 1 THEN TRUE
              ELSE s.is_finished
         ELSE TRUE

\* lines 59-65: the body ended
WorkerEnd(w) ==
    /\ w.pc = "iter"
    /\ w.next > w.last
    /\ segs' = SetSeg(w.seg, "is_finished", FinishedAtEnd(segs[w.seg]))
    /\ workers' = workers \ {w}
    /\ UNCHANGED <<envVars, managerVars, probe, budgetVars, now, tasks, created, status, file_size, progress,
                   total_downloaded, stop_event, pause_event, diskVars,
                   starters, monitors, started, spawned, merges>>

\* lines 66-68: the request, the read or the write raised
WorkerError(w) ==
    /\ errors < MaxErrors
    /\ errors' = errors + 1
    /\ \/ w.pc = "req" /\ ~segs[w.seg].is_finished /\ ~segs[w.seg].is_stopped
       \/ w.pc = "iter" /\ w.next <= w.last
    /\ segs' = SetSeg(w.seg, "is_stopped", TRUE)
    /\ workers' = workers \ {w}
    /\ UNCHANGED <<envVars, managerVars, probe, calls, now, tasks, created, status, file_size, progress,
                   total_downloaded, stop_event, pause_event, diskVars,
                   starters, monitors, started, spawned, merges>>

\* --------------------------------------------------- _merge_segments
\* sorted(self._segments, key=start): the indices in ascending start, equal
\* starts in list order (the sort is stable)
RECURSIVE SortedFrom(_, _)
SortedFrom(list, left) ==
    IF left = {} THEN <<>>
    ELSE LET k == CHOOSE i \in left :
                    \A j \in left :
                        \/ list[i].start < list[j].start
                        \/ list[i].start = list[j].start /\ i <= j
         IN <<k>> \o SortedFrom(list, left \ {k})

SortedSegments(list) == SortedFrom(list, DOMAIN list)

\* lines 176-181: the part files that exist are appended in that order and
\* removed; the result is [out, disk]
RECURSIVE MergeFrom(_, _, _, _)
MergeFrom(list, order, out, d) ==
    IF order = <<>> THEN [out |-> out, disk |-> d]
    ELSE LET seg_path == list[Head(order)].temp_path
         IN IF Exists(d, seg_path)
            THEN MergeFrom(list, Tail(order), out \o Data(d, seg_path),
                           Remove(d, seg_path))
            ELSE MergeFrom(list, Tail(order), out, d)

Merged(list, d) == MergeFrom(list, SortedSegments(list), <<>>, d)

\* a handle on a removed file writes to no file of the directory
Orphaned(ws, d) ==
    {IF w.pc # "req" /\ ~Exists(d, segs[w.seg].temp_path)
     THEN [w EXCEPT !.orphan = TRUE] ELSE w : w \in ws}

\* ------------------------------------- _attempt_dynamic_segmentation
AllFinished(list) == \A k \in DOMAIN list : list[k].is_finished

ActiveSegments(list) ==
    {k \in DOMAIN list : ~list[k].is_finished /\ ~list[k].is_stopped}

\* max(active_segments, key=remaining): the first of the largest
LargestSeg(list) ==
    CHOOSE k \in ActiveSegments(list) :
        \A j \in ActiveSegments(list) :
            \/ Remaining(list[k]) > Remaining(list[j])
            \/ Remaining(list[k]) = Remaining(list[j]) /\ k <= j

\* a split that does not wait for a finished segment
SplitDueUnfinished(list) ==
    /\ file_size # 0
    /\ ActiveSegments(list) # {}
    /\ Remaining(list[LargestSeg(list)]) > SplitThreshold

\* lines 148-159: whether this tick splits
SplitDue(list) ==
    /\ file_size # 0
    /\ \E k \in DOMAIN list : list[k].is_finished
    /\ ActiveSegments(list) # {}
    /\ Remaining(list[LargestSeg(list)]) > SplitThreshold

\* the middle of the whole range, whatever is already on disk
MidpointOfRange(s) == s.start + (((s.end - s.start) + 1) \div 2)

\* line 160
Midpoint(s) == s.start + (Remaining(s) \div 2)

\* lines 160-168: the segment list after the split
SplitSegments(list) ==
    LET k == LargestSeg(list)
        midpoint == Midpoint(list[k])
        new_seg_start == midpoint + 1
        new_seg_end == list[k].end
    IN Append([list EXCEPT ![k].end = midpoint],
              NewSegment(new_seg_start, new_seg_end))

\* ------------------------------------------------- _monitor_progress
MoveMonitor(from, to) ==
    [monitors EXCEPT ![from] = @ - 1, ![to] = @ + 1]
ExitMonitor(from) == [monitors EXCEPT ![from] = @ - 1]

\* line 125 / line 133
Progress == IF file_size > 0 THEN (total_downloaded * 100) \div file_size
            ELSE 0

\* line 111: the loop condition
MonitorLoop ==
    /\ monitors["loop"] > 0
    /\ monitors' = IF stop_event THEN ExitMonitor("loop")
                   ELSE MoveMonitor("loop", "body")
    /\ UNCHANGED <<envVars, managerVars, probe, budgetVars, now, tasks, created, status, file_size, progress,
                   total_downloaded, stop_event, pause_event, segs, diskVars,
                   starters, workers, started, spawned, merges>>

\* lines 112-137 with all segments finished: progress, then the merge,
\* which succeeds or raises on opening the final file (lines 183-185)
MonitorMerge ==
    /\ monitors["body"] > 0
    /\ AllFinished(segs)
    /\ progress' = Progress
    /\ merges' = merges + 1
    /\ monitors' = MoveMonitor("body", "post")
    /\ \E merge_ok \in BOOLEAN :
         IF merge_ok
         THEN LET m == Merged(segs, disk)
              IN /\ final_exists' = TRUE
                 /\ final_data' = m.out
                 /\ disk' = m.disk
                 /\ workers' = Orphaned(workers, m.disk)
                 /\ UNCHANGED status
         ELSE /\ status' = "Error"
              /\ UNCHANGED <<diskVars, workers>>
    /\ UNCHANGED <<envVars, managerVars, probe, budgetVars, now, tasks, created, file_size, total_downloaded,
                   stop_event, pause_event, segs, starters, started, spawned>>

\* lines 112-143 otherwise: progress, the split attempt, the sleep
MonitorTick ==
    /\ monitors["body"] > 0
    /\ ~AllFinished(segs)
    /\ progress' = Progress
    /\ monitors' = MoveMonitor("body", "loop")
    /\ IF SplitDue(segs)
       THEN /\ segs' = SplitSegments(segs)
            /\ workers' = workers \cup {NewWorker(spawned + 1, Len(segs) + 1)}
            /\ spawned' = spawned + 1
       ELSE UNCHANGED <<segs, workers, spawned>>
    /\ UNCHANGED <<envVars, managerVars, probe, budgetVars, now, tasks, created, status, file_size,
                   total_downloaded, stop_event, pause_event, diskVars,
                   starters, started, merges>>

\* line 138: the stop signal is read after the merge
MonitorPost ==
    /\ monitors["post"] > 0
    /\ monitors' = IF stop_event THEN ExitMonitor("post")
                   ELSE MoveMonitor("post", "set")
    /\ UNCHANGED <<envVars, managerVars, probe, budgetVars, now, tasks, created, status, file_size, progress,
                   total_downloaded, stop_event, pause_event, segs, diskVars,
                   starters, workers, started, spawned, merges>>

\* lines 139-140
MonitorSet ==
    /\ monitors["set"] > 0
    /\ monitors' = ExitMonitor("set")
    /\ status' = "Completed"
    /\ UNCHANGED <<envVars, managerVars, probe, budgetVars, now, tasks, created, file_size, progress,
                   total_downloaded, stop_event, pause_event, segs, diskVars,
                   starters, workers, started, spawned, merges>>

\* ------------------------------------------- the calls of the interface
\* a pause that does not look at the status
PauseAlways ==
    /\ Called("pause")
    /\ created
    /\ pause_event' = FALSE /\ status' = "Paused"
    /\ UNCHANGED <<envVars, managerVars, probe, errors, now, tasks, created, file_size, progress,
                   total_downloaded, stop_event, segs, diskVars, starters,
                   monitors, workers, started, spawned, merges>>

\* DownloadTask.pause
Pause ==
    /\ Called("pause")
    /\ created
    /\ IF status = "Downloading"
       THEN pause_event' = FALSE /\ status' = "Paused"
       ELSE UNCHANGED <<pause_event, status>>
    /\ UNCHANGED <<envVars, managerVars, probe, errors, now, tasks, created, file_size, progress,
                   total_downloaded, stop_event, segs, diskVars, starters,
                   monitors, workers, started, spawned, merges>>

\* DownloadTask.resume
Resume ==
    /\ Called("resume")
    /\ created
    /\ IF status = "Paused"
       THEN pause_event' = TRUE /\ status' = "Downloading"
       ELSE UNCHANGED <<pause_event, status>>
    /\ UNCHANGED <<envVars, managerVars, probe, errors, now, tasks, created, file_size, progress,
                   total_downloaded, stop_event, segs, diskVars, starters,
                   monitors, workers, started, spawned, merges>>

\* DownloadTask.stop
Stop(pause_only) ==
    /\ stop_event' = TRUE
    /\ IF pause_only
       THEN pause_event' = FALSE /\ status' = "Paused"
       ELSE status' = "Cancelled" /\ UNCHANGED pause_event

\* DownloadManager.stop_task
StopTask(pause_only) ==
    /\ Called(IF pause_only THEN "stop_pause_only" ELSE "stop")
    /\ created
    /\ Stop(pause_only)
    /\ UNCHANGED <<envVars, managerVars, probe, errors, now, tasks, created, file_size, progress,
                   total_downloaded, segs, diskVars, starters, monitors,
                   workers, started, spawned, merges>>

\* DownloadManager.resume_task for a DownloadTask: a Paused task is started
\* again; task.resume() in the last branch finds no Paused task
ResumeTask ==
    /\ Called("resume_task")
    /\ created
    /\ status = "Paused"
    /\ started < MaxStarts
    /\ starters' = SpawnStart
    /\ started' = started + 1
    /\ UNCHANGED <<envVars, managerVars, probe, errors, now, tasks, created, status, file_size, progress,
                   total_downloaded, stop_event, pause_event, segs, diskVars,
                   monitors, workers, spawned, merges>>

\* DownloadManager.remove_task
RemoveTask ==
    /\ Called("remove_task")
    /\ created
    /\ Stop(FALSE)
    /\ tasks' = SelectSeq(tasks, LAMBDA t : t # "task")
    /\ UNCHANGED <<envVars, managerVars, probe, errors, now, created, file_size, progress,
                   total_downloaded, segs, diskVars, starters, monitors,
                   workers, started, spawned, merges>>

\* DownloadManager.stop_all
StopAll ==
    /\ Called("stop_all")
    /\ IF tasks # <<>> /\ status \in {"Downloading", "Paused", "Queued",
                                      "Scheduled"}
       THEN Stop(FALSE)
       ELSE UNCHANGED <<stop_event, pause_event, status>>
    /\ UNCHANGED <<envVars, managerVars, probe, errors, now, tasks, created, file_size, progress,
                   total_downloaded, segs, diskVars, starters, monitors,
                   workers, started, spawned, merges>>

\* DownloadManager.check_scheduled_downloads
ScheduledDue ==
    /\ tasks # <<>>
    /\ status = "Scheduled"
    /\ schedule_time # None
    /\ schedule_time <= now

CheckScheduledDownloads ==
    /\ Called("check_scheduled_downloads")
    /\ ScheduledDue
    /\ started < MaxStarts
    /\ starters' = SpawnStart
    /\ started' = started + 1
    /\ UNCHANGED <<envVars, managerVars, probe, errors, now, tasks, created, status, file_size, progress,
                   total_downloaded, stop_event, pause_event, segs, diskVars,
                   monitors, workers, spawned, merges>>

\* the wall clock advances; it is read by add_download and, for a Scheduled
\* task, by check_scheduled_downloads
Tick ==
    /\ now < MaxTime
    /\ created /\ status = "Scheduled"
    /\ now' = now + 1
    /\ UNCHANGED <<envVars, managerVars, probe, budgetVars, tasks, created, status, file_size, progress,
                   total_downloaded, stop_event, pause_event, segs, diskVars,
                   starters, monitors, workers, started, spawned, merges>>

Next ==
    \/ AddDownload
    \/ StartCheck
    \/ StartClear
    \/ StartPlan
    \/ \E w \in workers : WorkerRequest(w)
    \/ \E w \in workers : WorkerChunk(w)
    \/ \E w \in workers : WorkerWait(w)
    \/ \E w \in workers : WorkerEnd(w)
    \/ \E w \in workers : WorkerError(w)
    \/ MonitorLoop
    \/ MonitorMerge
    \/ MonitorTick
    \/ MonitorPost
    \/ MonitorSet
    \/ Pause
    \/ Resume
    \/ \E pause_only \in BOOLEAN : StopTask(pause_only)
    \/ ResumeTask
    \/ RemoveTask
    \/ StopAll
    \/ CheckScheduledDownloads
    \/ Tick

Spec == Init /\ [][Next]_vars

\* the same threads and calls, without resume_task and the scheduler
NextSplit ==
    \/ AddDownload
    \/ StartCheck
    \/ StartClear
    \/ StartPlan
    \/ \E w \in workers : WorkerRequest(w)
    \/ \E w \in workers : WorkerChunk(w)
    \/ \E w \in workers : WorkerWait(w)
    \/ \E w \in workers : WorkerEnd(w)
    \/ \E w \in workers : WorkerError(w)
    \/ MonitorLoop
    \/ MonitorMerge
    \/ MonitorTick
    \/ MonitorPost
    \/ MonitorSet
    \/ Pause
    \/ Resume
    \/ \E pause_only \in BOOLEAN : StopTask(pause_only)
    \/ RemoveTask
    \/ StopAll

SpecSplit == InitSplit /\ [][NextSplit]_vars

\* one run that nothing interrupts: no call after add_download, no
\* exception
NextLong ==
    \/ AddDownload
    \/ StartCheck
    \/ StartClear
    \/ StartPlan
    \/ \E w \in workers : WorkerRequest(w)
    \/ \E w \in workers : WorkerChunk(w)
    \/ \E w \in workers : WorkerEnd(w)
    \/ MonitorLoop
    \/ MonitorMerge
    \/ MonitorTick
    \/ MonitorPost
    \/ MonitorSet

SpecLong == InitLong /\ [][NextLong]_vars

\* ------------------------------------------------------------- fairness
\* The threads of the task are daemon threads of one process: the scheduler
\* lets every thread that can take its next step take it eventually, and
\* chunks keep arriving.  Exceptions and the calls of the interface need
\* not happen.
WorkerStep(id) ==
    \E w \in workers :
        /\ w.id = id
        /\ WorkerRequest(w) \/ WorkerChunk(w) \/ WorkerWait(w) \/ WorkerEnd(w)

MonitorStep ==
    MonitorLoop \/ MonitorMerge \/ MonitorTick \/ MonitorPost \/ MonitorSet

StartStep == StartCheck \/ StartClear \/ StartPlan

Fairness ==
    /\ WF_vars(StartStep)
    /\ WF_vars(MonitorStep)
    /\ \A id \in 1..MaxWorkers : WF_vars(WorkerStep(id))

\* single-segment downloads of short resources that are not started again,
\* under a fair scheduler
InitFair ==
    /\ resource_size \in ResourceSizes
    /\ content_length \in BOOLEAN
    /\ segments \in SegmentCounts
    /\ schedule_time = None
    /\ Constructed

SpecFair == InitFair /\ [][NextSplit]_vars /\ Fairness

\* add_download and the start_download thread it spawns, up to the planning
NextPlan ==
    \/ AddDownload
    \/ StartCheck
    \/ StartClear
    \/ StartPlan

SpecPlan == InitPlan /\ [][NextPlan]_vars

\* ------------------------------------------- a manager with several tasks
\* The manager's calls over a list of tasks of both classes.  A task is
\* followed by its status and its signals only: its run is one step from
\* start_download to the end of its monitor (or of yt-dlp).
singleTaskVars == <<envVars, created, status, file_size, progress,
                    total_downloaded, stop_event, pause_event, segs, diskVars,
                    starters, monitors, workers, started, spawned, merges,
                    errors, probe>>

InitManager ==
    /\ resource_size = 0
    /\ content_length = FALSE
    /\ segments = 1
    /\ schedule_time = None
    /\ Constructed

\* a call of the interface on the manager is recorded with its argument
ManagerCalled(name, arg) ==
    /\ Len(calls) < MaxCalls
    /\ calls' = Append(calls, <<name, arg>>)

Handles == DOMAIN objects
InList(t) == \E k \in DOMAIN tasks : tasks[k] = t

\* DownloadTask.__init__ / VideoDownloadTask.__init__
NewTask(kind, st) ==
    [kind |-> kind, status |-> "Queued", schedule_time |-> st,
     stop_event |-> FALSE, pause_event |-> TRUE,
     threads |-> 0, running |-> FALSE]

\* DownloadManager.add_download
ManagerAddDownload(kind, st) ==
    /\ ManagerCalled("add_download", Len(objects) + 1)
    /\ Len(objects) < MaxTasks
    /\ LET t == Len(objects) + 1
           task == NewTask(kind, st)
       IN /\ tasks' = Append(tasks, t)
          /\ objects' = Append(objects,
                IF st # None /\ st > now
                THEN [task EXCEPT !.status = "Scheduled"]
                ELSE [task EXCEPT !.threads = 1])
    /\ UNCHANGED <<singleTaskVars, now, snapshot>>

\* the thread of start_download: DownloadTask.start_download lines 52-73,
\* VideoDownloadTask.start lines 31-32
TaskStartDownload(t) ==
    /\ objects[t].threads > 0
    /\ LET o == [objects[t] EXCEPT !.threads = @ - 1]
       IN objects' = [objects EXCEPT ![t] =
            IF o.kind = "VideoDownloadTask"
            THEN [o EXCEPT !.status = "Downloading", !.running = TRUE]
            ELSE IF o.status \notin {"Queued", "Paused", "Error"} THEN o
            ELSE [o EXCEPT !.status = "Downloading", !.stop_event = FALSE,
                           !.pause_event = TRUE, !.running = TRUE]]
    /\ UNCHANGED <<singleTaskVars, now, tasks, calls, snapshot>>

\* the end of a run: the monitor leaves its loop on the stop signal or
\* after the merge (lines 111, 136-140); yt-dlp finishes or raises
\* (src/video_downloader.py:57-60, 89-91)
TaskRunEnds(t) ==
    /\ objects[t].running
    /\ LET o == [objects[t] EXCEPT !.running = FALSE]
       IN IF o.kind = "VideoDownloadTask"
          THEN \E st \in {"Completed", "Error"} :
                  objects' = [objects EXCEPT ![t] = [o EXCEPT !.status = st]]
          ELSE /\ o.stop_event \/ o.pause_event
               /\ objects' = [objects EXCEPT ![t] =
                     IF o.stop_event THEN o
                     ELSE [o EXCEPT !.status = "Completed"]]
    /\ UNCHANGED <<singleTaskVars, now, tasks, calls, snapshot>>

\* task.stop(pause_only) on a task object: DownloadTask.stop;
\* VideoDownloadTask has no stop method and the call raises AttributeError
HasStop(o) == o.kind = "DownloadTask"
Stopped(o, pause_only) ==
    IF pause_only
    THEN [o EXCEPT !.stop_event = TRUE, !.pause_event = FALSE,
                   !.status = "Paused"]
    ELSE [o EXCEPT !.stop_event = TRUE, !.status = "Cancelled"]

\* DownloadManager.stop_task
ManagerStopTask(t, pause_only) ==
    /\ ManagerCalled(IF pause_only THEN "stop_pause_only" ELSE "stop", t)
    /\ InList(t)
    /\ objects' = IF HasStop(objects[t])
                  THEN [objects EXCEPT ![t] = Stopped(@, pause_only)]
                  ELSE objects
    /\ UNCHANGED <<singleTaskVars, now, tasks, snapshot>>

\* DownloadManager.resume_task: only a Paused DownloadTask is started again
\* (DownloadTask.resume in the last branch finds no Paused task, and a
\* VideoDownloadTask has no resume method to find)
ManagerResumeTask(t) ==
    /\ ManagerCalled("resume_task", t)
    /\ InList(t)
    /\ objects' = IF objects[t].status = "Paused"
                     /\ objects[t].kind = "DownloadTask"
                  THEN [objects EXCEPT ![t].threads = @ + 1]
                  ELSE objects
    /\ UNCHANGED <<singleTaskVars, now, tasks, snapshot>>

\* DownloadManager.remove_task: task.stop() comes first, and when it raises
\* the list is not reached
ManagerRemoveTask(t) ==
    /\ ManagerCalled("remove_task", t)
    /\ t \in Handles
    /\ IF HasStop(objects[t])
       THEN /\ objects' = [objects EXCEPT ![t] = Stopped(@, FALSE)]
            /\ tasks' = SelectSeq(tasks, LAMBDA u : u # t)
       ELSE UNCHANGED <<objects, tasks>>
    /\ UNCHANGED <<singleTaskVars, now, snapshot>>

\* a snapshot that is the manager's own list object
SnapshotAlias(list) == [taken |-> TRUE, live |-> TRUE, items |-> list]

\* list(self.tasks): a copy of the list
Snapshot(list) == [taken |-> TRUE, live |-> FALSE, items |-> list]

\* what the holder of a snapshot reads in it
SnapshotItems == IF snapshot.live THEN tasks ELSE snapshot.items

\* DownloadManager.get_all_tasks
ManagerGetAllTasks ==
    /\ ManagerCalled("get_all_tasks", 0)
    /\ snapshot' = Snapshot(tasks)
    /\ UNCHANGED <<singleTaskVars, now, tasks, objects>>

StopAllStatuses == {"Downloading", "Paused", "Queued", "Scheduled"}

\* stop_all walks the list in order: the positions it reaches before a
\* task.stop() raises
ReachedByStopAll ==
    {k \in DOMAIN tasks :
        \A j \in 1..(k - 1) :
            objects[tasks[j]].status \in StopAllStatuses
                => HasStop(objects[tasks[j]])}

\* DownloadManager.stop_all
ManagerStopAll ==
    /\ ManagerCalled("stop_all", 0)
    /\ objects' = [t \in Handles |->
          IF /\ \E k \in ReachedByStopAll : tasks[k] = t
             /\ objects[t].status \in StopAllStatuses
             /\ HasStop(objects[t])
          THEN Stopped(objects[t], FALSE)
          ELSE objects[t]]
    /\ UNCHANGED <<singleTaskVars, now, tasks, snapshot>>

\* DownloadManager.check_scheduled_downloads
ManagerCheckScheduledDownloads ==
    /\ ManagerCalled("check_scheduled_downloads", 0)
    /\ objects' = [t \in Handles |->
          IF /\ InList(t)
             /\ objects[t].status = "Scheduled"
             /\ objects[t].schedule_time # None
             /\ objects[t].schedule_time <= now
          THEN [objects[t] EXCEPT !.threads = @ + 1]
          ELSE objects[t]]
    /\ UNCHANGED <<singleTaskVars, now, tasks, snapshot>>

\* the wall clock advances
ManagerTick ==
    /\ now < MaxTime
    /\ now' = now + 1
    /\ UNCHANGED <<singleTaskVars, tasks, calls, managerVars>>

NextManager ==
    \/ \E kind \in TaskKinds, st \in ManagerScheduleTimes :
          ManagerAddDownload(kind, st)
    \/ \E t \in Handles : TaskStartDownload(t)
    \/ \E t \in Handles : TaskRunEnds(t)
    \/ \E t \in Handles, pause_only \in BOOLEAN : ManagerStopTask(t, pause_only)
    \/ \E t \in Handles : ManagerResumeTask(t)
    \/ \E t \in Handles : ManagerRemoveTask(t)
    \/ ManagerGetAllTasks
    \/ ManagerStopAll
    \/ ManagerCheckScheduledDownloads
    \/ ManagerTick

SpecManager == InitManager /\ [][NextManager]_vars

\* ---------------------------------------------------------------- claims
NoStarter == \A p \in StarterPcs : starters[p] = 0
NoMonitor == \A p \in MonitorPcs : monitors[p] = 0
CallNames == [k \in DOMAIN calls |-> calls[k][1]]

\* a dynamic split has been made (one planning of `segments` segments)
SplitHappened == file_size > 0 /\ started = 1 /\ Len(segs) > segments

\* C1: a task of known size that reaches Completed has a merged final file
\* of exactly total_size bytes, dynamic splits included.
C1_FinalSizeIsTotalSize ==
    (status = "Completed" /\ file_size > 0 /\ final_exists)
        => Len(final_data) = file_size

\* C2: a split never changes the final file: after a run with a split that
\* reaches Completed, the final file is the resource, byte for byte.
C2_SplitKeepsContents ==
    (status = "Completed" /\ final_exists /\ SplitHappened)
        => final_data = Resource

\* the closed ranges of two segments share no offset (an open end reaches
\* to the end of the resource)
Disjoint(a, b) ==
    \/ a.end # None /\ a.end < b.start
    \/ b.end # None /\ b.end < a.start

\* C3: with total_size > 0 no two segments of the list overlap, in every
\* reachable state, also after pause, stop(pause_only) and resume.
C3_NoOverlap ==
    (file_size > 0 /\ \A k \in DOMAIN segs : segs[k].end # None) =>
        \A i, j \in DOMAIN segs : i # j => Disjoint(segs[i], segs[j])

\* C4: with total_size > 0, once planned, the union of the segments' ranges
\* is exactly [0, total_size - 1].
C4_ExactCover ==
    (file_size > 0 /\ segs # <<>>) =>
        /\ \A k \in DOMAIN segs : segs[k].end # None
        /\ UNION {segs[k].start .. segs[k].end : k \in DOMAIN segs}
              = 0 .. (file_size - 1)

Terminal == {"Completed", "Cancelled", "Error"}

\* C5: once the status is Completed, Cancelled or Error, no step changes it.
C5_TerminalIsFinal ==
    [][(status \in Terminal) => (status' = status)]_vars

\* C6: a download paused with pause() and resumed with resume() still ends
\* Completed with the bytes of an uninterrupted download.
C6_PauseResumeKeepsBytes ==
    (/\ CallNames = <<"add_download", "pause", "resume">>
     /\ calls[2][2] = "Downloading" /\ calls[3][2] = "Paused"
     /\ status = "Completed" /\ final_exists)
        => final_data = Resource

\* a task stopped with stop(pause_only) while downloading and resumed by
\* the supervisor, after every worker of both runs has returned: the worker
\* of the first run saw the stop part-way, and no worker failed
RestartedAndDrained ==
    /\ CallNames = <<"add_download", "stop_pause_only", "resume_task">>
    /\ calls[2][2] = "Downloading"
    /\ errors = 0 /\ started = 2
    /\ NoStarter /\ workers = {}
    /\ segs # <<>> /\ segs[1].is_stopped
    /\ segs[1].downloaded > 0 /\ segs[1].downloaded < resource_size

\* C7: a task stopped with stop(pause_only) and resumed by the supervisor
\* runs the start path again and reaches Completed with the complete file:
\* once its workers have returned, the monitor's tick merges rather than
\* going back to sleep.
C7_RestartCompletes ==
    [][(RestartedAndDrained /\ monitors'["body"] < monitors["body"])
          => (merges' = merges + 1)]_vars

\* C8: after stop(pause_only=false) the status is Cancelled and the monitor
\* does not merge: while the stop signal is set and the status is Cancelled
\* no step creates the final file, whatever the interleaving.
C8_NoMergeAfterCancel ==
    [][(stop_event /\ status = "Cancelled")
          => (final_exists' = final_exists)]_vars

\* C9: the scheduler tick moves a due Scheduled task to Downloading and
\* starts it: once its start thread has run, the task is planned.
C9_ScheduledStarts ==
    (/\ CallNames = <<"add_download", "check_scheduled_downloads">>
     /\ started = 1 /\ NoStarter)
        => (status # "Scheduled" /\ segs # <<>>)

\* (a step that lowers monitors["body"] is a monitor's tick)
\* a worker gave up and every other worker has finished
GaveUp ==
    /\ errors > 0
    /\ ~stop_event
    /\ workers = {}
    /\ NoStarter
    /\ \E k \in DOMAIN segs : segs[k].is_stopped /\ ~segs[k].is_finished
    /\ \E k \in DOMAIN segs : segs[k].is_finished

\* C10: when a worker gave up and the others have finished, the monitor's
\* tick leaves the loop without merging and sets the status Error.
C10_GaveUpMeansError ==
    [][(GaveUp /\ monitors'["body"] < monitors["body"])
          => (status' = "Error" /\ merges' = merges /\ NoMonitor')]_vars

\* C11: when the merge fails on the final file, the status ends as Error
\* and is not reported Completed: while every merge so far has failed (no
\* final file was created), the status is not Completed.
C11_MergeFailureIsError ==
    (merges > 0 /\ ~final_exists) => status # "Completed"

\* C12: a size probe that fails before any byte (DNS, connect) moves the
\* task from Downloading to Error and plans nothing; a probe that fails
\* softly or answers without Content-Length leaves the size unknown and the
\* first planning opens a single open-ended segment.
C12_ProbeOutcomes ==
    [][(starters'["plan"] < starters["plan"]) =>
          /\ (probe' = "connection_error") =>
                (status' = "Error" /\ segs' = segs /\ workers' = workers)
          /\ (probe' = "timeout" \/ (probe' = "answered" /\ ~content_length))
             /\ segs = <<>> =>
                (file_size' = 0 /\ segs' = <<NewSegment(0, None)>>)]_vars

\* C13: with total_size > 0 the progress never exceeds 100, and it is 100
\* exactly when the status is Completed.
C13_ProgressHundredIffCompleted ==
    file_size > 0 =>
        /\ progress <= 100
        /\ (progress = 100) <=> (status = "Completed")

RECURSIVE SumDownloaded(_)
SumDownloaded(list) ==
    IF list = <<>> THEN 0
    ELSE Head(list).downloaded + SumDownloaded(Tail(list))

\* C14: every monitor tick recomputes the downloaded total as the sum of
\* segment.downloaded, and the progress as floor(100 * total / total_size)
\* when total_size > 0 and 0 otherwise.
C14_TickRecomputesTotal ==
    [][(monitors'["body"] < monitors["body"]) =>
          /\ total_downloaded' = SumDownloaded(segs)
          /\ progress' = IF file_size > 0
                         THEN (100 * SumDownloaded(segs)) \div file_size
                         ELSE 0]_vars

\* C15: with 0 < total_size < the requested segment count, the planning
\* creates no empty or negative-length segment, and the last segment ends
\* at total_size - 1.
C15_NoEmptySegment ==
    (0 < file_size /\ file_size < segments /\ segs # <<>>) =>
        /\ \A k \in DOMAIN segs : segs[k].start <= segs[k].end
        /\ segs[Len(segs)].end = file_size - 1

\* the state after a clean end of the only run of a task of unknown size:
\* planned, its threads gone, no stop signalled
UnknownSizeRunEnded ==
    /\ file_size = 0 /\ started = 1 /\ segs # <<>>
    /\ NoStarter /\ NoMonitor /\ workers = {}
    /\ ~stop_event /\ errors = 0

\* C16: with no content length the planning opens exactly one open-ended
\* segment [0, None] whatever count was requested, no later step adds a
\* segment, a worker that reaches the end of the stream marks its segment
\* finished, and the run ends Completed.
C16_UnknownSize ==
    /\ [](UnknownSizeRunEnded =>
             (segs[1].is_finished /\ status = "Completed"))
    /\ [][/\ (starters'["plan"] < starters["plan"] /\ file_size' = 0)
             => segs' = Append(segs, NewSegment(0, None))
          /\ (starters'["plan"] = starters["plan"] /\ file_size = 0)
             => Len(segs') = Len(segs)
          /\ \A w \in workers :
               (/\ segs[w.seg].end = None
                /\ w.pc = "iter" /\ w.next > w.last
                /\ w \notin workers')
               => segs'[w.seg].is_finished]_vars

\* a run of a task of unknown size, requested with two segments, has ended
\* Completed on its single open-ended segment
C16_UnknownSizeCompleted ==
    /\ UnknownSizeRunEnded /\ ~content_length /\ segments = 2
    /\ segs = <<[NewSegment(0, None) EXCEPT !.downloaded = resource_size,
                                            !.is_finished = TRUE]>>
    /\ status = "Completed" /\ final_exists

\* C17: with total_size > 0 the first planning produces exactly N segments,
\* contiguous and ascending from 0; the first N-1 have length
\* floor(total_size / N) and the last ends at total_size - 1.
C17_EqualParts ==
    (file_size > 0 /\ segs # <<>>) =>
        /\ Len(segs) = segments
        /\ segs[1].start = 0
        /\ \A k \in 1..(Len(segs) - 1) :
              /\ segs[k + 1].start = segs[k].end + 1
              /\ (segs[k].end - segs[k].start) + 1 = file_size \div segments
        /\ segs[Len(segs)].end = file_size - 1

\* a planning of more than one segment whose last segment took a remainder
C17_PlannedWithRemainder ==
    /\ file_size > 0 /\ segs # <<>>
    /\ segments > 1 /\ file_size > segments
    /\ file_size % segments # 0

\* C18: whenever the status is Completed, no part file of the task is left
\* on disk.
C18_NoPartFileWhenCompleted ==
    status = "Completed" => disk = {}

\* a worker holds its part file open for writing
Writing(w) == w.pc \in {"iter", "wait"} /\ ~w.orphan

\* C19: no two running workers have the same part file open for writing.
C19_OneWriterPerPartFile ==
    \A w1, w2 \in workers :
        (w1 # w2 /\ Writing(w1) /\ Writing(w2)) =>
            segs[w1.seg].temp_path # segs[w2.seg].temp_path

\* C20: at most one monitor runs for the task, and the workers spawned so
\* far are as many as the segments of the list.
C20_SingleMonitor ==
    /\ monitors["loop"] + monitors["body"] + monitors["post"]
          + monitors["set"] <= 1
    /\ spawned = Len(segs)

\* the step is the call `name` of the interface with argument `arg`
CallStep(name, arg) ==
    /\ Len(calls') = Len(calls) + 1
    /\ calls'[Len(calls')] = <<name, arg>>

\* C21: remove first stops the task and then evicts it, for a segmented
\* download and for a video-site task alike: after the call the task's stop
\* has been requested and its handle is no longer in the list.
C21_RemoveStopsAndEvicts ==
    [][\A t \in Handles :
          CallStep("remove_task", t) =>
              /\ objects'[t].stop_event
              /\ \A k \in DOMAIN tasks' : tasks'[k] # t]_vars

\* C22: stop_all stops every task of the list that is Queued, Scheduled,
\* Downloading or Paused (stop signal set, status Cancelled) and leaves the
\* status of every Completed, Cancelled or Error task as it was.
C22_StopAllStopsTheLive ==
    [][CallStep("stop_all", 0) =>
          \A k \in DOMAIN tasks :
              LET t == tasks[k]
              IN IF objects[t].status \in
                       {"Queued", "Scheduled", "Downloading", "Paused"}
                 THEN /\ objects'[t].stop_event
                      /\ objects'[t].status = "Cancelled"
                 ELSE objects'[t].status = objects[t].status]_vars

\* C23: add appends exactly one new task to the list; with a schedule_time
\* in the future the task is Scheduled and no start thread, worker or
\* monitor is spawned for it; otherwise a start thread is spawned in the
\* background, which takes the status from Queued to Downloading.
C23_AddSchedulesOrStarts ==
    /\ [](status = "Scheduled" =>
             (NoStarter /\ NoMonitor /\ workers = {} /\ spawned = 0))
    /\ [][/\ (~created /\ created') =>
                /\ tasks' = Append(tasks, "task")
                /\ IF schedule_time # None /\ schedule_time > now
                   THEN status' = "Scheduled" /\ starters' = starters
                   ELSE /\ status' = "Queued"
                        /\ starters'["check"] = starters["check"] + 1
          /\ (starters'["check"] < starters["check"] /\ status = "Queued")
                => status' = "Downloading"]_vars

\* a task added with a schedule_time in the future
C23_AddedScheduled ==
    /\ tasks = <<"task">> /\ CallNames = <<"add_download">>
    /\ schedule_time = 2 /\ now = 1
    /\ status = "Scheduled"

Ascending(list) == \A i, j \in DOMAIN list : i < j => list[i] < list[j]

\* C24: get_all_tasks returns a snapshot in insertion order that a later
\* add or remove does not alter, and the tasks that stay in the list keep
\* their relative order (handles are numbered in insertion order).
C24_SnapshotsAreStable ==
    /\ [](Ascending(tasks) /\ Ascending(SnapshotItems))
    /\ [][(snapshot.taken /\ ~CallStep("get_all_tasks", 0))
             => SnapshotItems' = SnapshotItems]_vars

\* the list was changed after the snapshot was taken
C24_ListChangedAfterSnapshot ==
    /\ snapshot.taken
    /\ snapshot.items # <<>>
    /\ SnapshotItems # tasks

\* C25: during a single run the downloaded total never decreases from one
\* step to the next: no segment's downloaded counter decreases and no
\* segment leaves the list.
C25_DownloadedNeverDecreases ==
    [][/\ total_downloaded' >= total_downloaded
       /\ Len(segs') >= Len(segs)
       /\ \A k \in DOMAIN segs :
             /\ segs'[k].downloaded >= segs[k].downloaded
             /\ segs'[k].start = segs[k].start
             /\ segs'[k].temp_path = segs[k].temp_path
       /\ SumDownloaded(segs') >= SumDownloaded(segs)]_vars

\* a run with a split in which a worker that had written was stopped
C25_StoppedAfterSplit ==
    /\ SplitHappened
    /\ \E k \in DOMAIN segs : segs[k].is_stopped /\ segs[k].downloaded > 0
    /\ \E k \in DOMAIN segs : segs[k].is_finished

\* C26: when a segment with known end is marked finished, its part file
\* holds exactly the end - start + 1 bytes of its current range: a worker
\* whose segment was shrunk by a split stops at the new end.
C26_FinishedHoldsItsRange ==
    [][\A k \in DOMAIN segs :
          (~segs[k].is_finished /\ segs'[k].is_finished
             /\ segs'[k].end # None) =>
              /\ Exists(disk', segs'[k].temp_path)
              /\ GetSize(disk', segs'[k].temp_path)
                    = (segs'[k].end - segs'[k].start) + 1]_vars

\* the step is a dynamic split: a segment is added to a planned list by
\* another thread than start_download
SplitStep ==
    /\ segs # <<>>
    /\ Len(segs') > Len(segs)
    /\ starters'["plan"] = starters["plan"]

\* C27: at every split the new segment starts beyond the highest offset
\* the worker of the shrunk segment has written (start + downloaded - 1).
C27_SplitBeyondWritten ==
    [][SplitStep =>
          \A k \in DOMAIN segs :
              segs'[k].end # segs[k].end =>
                  segs'[Len(segs')].start
                      > (segs[k].start + segs[k].downloaded) - 1]_vars

\* the remaining of a segment as the specification defines it
RemainingBytes(s) == ((s.end - s.start) + 1) - s.downloaded

C30_ResumeFromPartFile ==
    [][\A w \in workers : \A w2 \in workers' :
          (w.pc = "req" /\ w2.id = w.id /\ w2.pc = "iter") =>
              LET s == segs[w.seg]
                  on_disk == IF Exists(disk, s.temp_path)
                             THEN GetSize(disk, s.temp_path) ELSE 0
              IN w2.next = s.start + on_disk]_vars

\* the bytes of the resource at offsets first, first + 1, ..., n of them
ResourceBytes(first, n) == [i \in 1..n |-> (first + i) - 1]

\* C31: every segment's part file holds exactly the resource bytes at
\* [start, start + downloaded - 1] in order, as many as the segment's
\* downloaded counter, also after a stop(pause_only) and re-start.
C31_PartFileIsTheRange ==
    \A k \in DOMAIN segs :
        Exists(disk, segs[k].temp_path) =>
            Data(disk, segs[k].temp_path)
                = ResourceBytes(segs[k].start, segs[k].downloaded)

\* a worker stands at a chunk boundary: a chunk has arrived, or it polls
\* the pause signal with a chunk in hand
AtChunk(w) == (w.pc = "iter" /\ w.next <= w.last) \/ w.pc = "wait"

AllExited == workers = {} /\ NoMonitor

\* C32: with the stop signal set, a worker that passes a chunk boundary
\* sets is_stopped, writes nothing, does not mark is_finished and returns;
\* and under fair scheduling, as long as the signal stays set, every worker
\* and the monitor eventually exit.
C32_StopWithinOneChunk ==
    /\ [][stop_event =>
            \A w \in workers :
                (AtChunk(w) /\ w \notin workers') =>
                    /\ segs'[w.seg].is_stopped
                    /\ segs'[w.seg].is_finished = segs[w.seg].is_finished
                    /\ segs'[w.seg].downloaded = segs[w.seg].downloaded
                    /\ disk' = disk
                    /\ \A w2 \in workers' : w2.id # w.id]_vars
    /\ (stop_event ~> (~stop_event \/ AllExited))

\* every thread has exited after a stop that found a worker mid-stream
C32_StoppedMidStream ==
    /\ stop_event /\ AllExited /\ NoStarter /\ errors = 0
    /\ CallNames = <<"add_download", "stop">>
    /\ segs # <<>> /\ segs[1].is_stopped
    /\ segs[1].downloaded > 0 /\ segs[1].downloaded < resource_size

\* C33: while pause is signalled and stop is not, no worker appends a chunk
\* or increases its segment's downloaded; a worker that waits with a chunk
\* in hand appends that same chunk once the pause is cleared, or, if stop
\* is signalled while it waits, sets is_stopped and returns without writing.
C33_PauseHoldsTheChunk ==
    [][/\ (~pause_event /\ ~stop_event) =>
             /\ \A k \in DOMAIN segs :
                   segs'[k].downloaded = segs[k].downloaded
             /\ \A f \in disk : \A g \in disk' :
                   g.path = f.path => g.data = f.data
       /\ \A w \in workers :
             (w.pc = "wait" /\ w \notin workers') =>
                 LET s == segs[w.seg]
                 IN IF stop_event
                    THEN /\ segs'[w.seg].is_stopped
                         /\ segs'[w.seg].downloaded = s.downloaded
                         /\ disk' = disk
                         /\ \A w2 \in workers' : w2.id # w.id
                    ELSE /\ pause_event
                         /\ segs'[w.seg].downloaded = s.downloaded + ChunkSize
                         /\ Data(disk', s.temp_path)
                               = Append(Data(disk, s.temp_path), w.next)
                         /\ \E w2 \in workers' :
                               w2.id = w.id /\ w2.next = w.next + ChunkSize]_vars

\* the pause was cleared while a worker waits with a later chunk in hand
C33_WaitingWorkerResumed ==
    /\ pause_event /\ ~stop_event
    /\ CallNames = <<"add_download", "pause", "resume">>
    /\ \E w \in workers : w.pc = "wait" /\ w.next > segs[w.seg].start

\* C34: the monitor sets Completed only where every segment is finished,
\* the merge has been run and the stop signal is not set; and in every
\* state with status Completed all segments are finished.
C34_CompletedMeansAllFinished ==
    /\ [](status = "Completed" => AllFinished(segs))
    /\ [][(status # "Completed" /\ status' = "Completed") =>
              (AllFinished(segs) /\ merges > 0 /\ ~stop_event)]_vars

\* C35: no segment is both finished and stopped, neither flag is ever
\* reset, a worker that hits an exception marks its segment stopped and
\* not finished, and a worker started on a finished or stopped segment
\* does nothing.
C35_FinishedXorStopped ==
    /\ [](\A k \in DOMAIN segs : ~(segs[k].is_finished /\ segs[k].is_stopped))
    /\ [][/\ \A k \in DOMAIN segs :
                /\ segs[k].is_finished => segs'[k].is_finished
                /\ segs[k].is_stopped => segs'[k].is_stopped
          /\ (errors' > errors) =>
                \E k \in DOMAIN segs :
                    /\ segs'[k].is_stopped
                    /\ segs'[k].is_finished = segs[k].is_finished
          /\ \A w \in workers :
                (/\ w.pc = "req" /\ w \notin workers'
                 /\ segs[w.seg].is_finished \/ segs[w.seg].is_stopped)
                => (segs' = segs /\ disk' = disk
                    /\ \A w2 \in workers' : w2.id # w.id)]_vars

\* the step is the call `name` on the task
TaskCallStep(name) ==
    /\ Len(calls') = Len(calls) + 1
    /\ calls'[Len(calls')][1] = name

\* C36: pause() changes the task only when its status is Downloading (pause
\* signalled, status Paused) and resume() only when it is Paused (pause
\* cleared, status Downloading); otherwise status, signals and segments
\* stay as they are, and neither call touches the stop signal.
C36_PauseResumeFrame ==
    [][/\ TaskCallStep("pause") =>
             /\ IF status = "Downloading"
                THEN ~pause_event' /\ status' = "Paused"
                ELSE pause_event' = pause_event /\ status' = status
             /\ stop_event' = stop_event /\ segs' = segs
       /\ TaskCallStep("resume") =>
             /\ IF status = "Paused"
                THEN pause_event' /\ status' = "Downloading"
                ELSE pause_event' = pause_event /\ status' = status
             /\ stop_event' = stop_event /\ segs' = segs]_vars

\* pause() found the task Downloading and resume() found it Paused
C36_PausedAndResumed ==
    /\ CallNames = <<"add_download", "pause", "resume">>
    /\ calls[2][2] = "Downloading" /\ calls[3][2] = "Paused"
    /\ status = "Downloading" /\ pause_event /\ ~stop_event

\* every worker of the started task has exited
WorkersGone ==
    /\ started > 0 /\ NoStarter
    /\ segs # <<>> /\ workers = {}

\* C37: once every worker of a started task has exited, the monitor
\* eventually leaves its loop (unless a new worker is spawned first), and the
\* status is then Completed, Cancelled, Error or Paused.
C37_MonitorTerminates ==
    WorkersGone ~>
        (\/ workers # {}
         \/ NoMonitor /\ status \in {"Completed", "Cancelled", "Error", "Paused"})

\* C38: a stop(pause_only=false) that arrives while start_download is
\* between its status check and its clearing of the signals is not lost:
\* the stop signal is still set and the status still Cancelled when
\* start_download goes on.
C38_StopSurvivesStart ==
    [][(starters'["clear"] < starters["clear"]
          /\ stop_event /\ status = "Cancelled")
          => (stop_event' /\ status' = "Cancelled"
              /\ starters'["plan"] = starters["plan"])]_vars

\* C39: when the merge reads and deletes the part files, no worker has one
\* of them open for writing.
C39_MergeAfterWriters ==
    [][(merges' = merges + 1 /\ disk' # disk) =>
          \A w \in workers :
              Writing(w) => ~Exists(disk, segs[w.seg].temp_path)]_vars
====
